---- MODULE Spec2Model ----
(***************************************************************************)
(* State-machine model of run_ingestion_pipeline (src/src/ingest.py) and   *)
(* of S3FileClient.upload_file (src/src/utils/s3_client.py).               *)
(*                                                                         *)
(* The page fetcher (UnstableAPIClient.iterate_all_pages) and the          *)
(* credential provider (AuthClient) are imported by ingest.py but their    *)
(* code is not part of the sources; they are modelled from sections 4.1    *)
(* and 4.2 of the specification.                                           *)
(*                                                                         *)
(* A record is modelled by the set of its keys.  A cell of the csv file is *)
(* "val" (a value taken from the record), "N/A" (row.get's default) or ""  *)
(* (csv.DictWriter's restval).                                             *)
(***************************************************************************)
EXTENDS Integers, Sequences, FiniteSets, TLC

\* ------------------------------------------------------------- bounds
\* Pages the fetcher may yield in one run (the safety ceiling of 4.2 step 3).
MaxPages == 4
\* Total of retried transient failures in one run.
MaxRetryCount == 6
\* Total of credential rejections in one run.
MaxRejections == 2

\* ------------------------------------------------- program constants
\* max_retries=5 passed to UnstableAPIClient.
max_retries == 5

\* The field names records may carry, in sorted() order.
FieldOrder == <<"a", "b", "c">>

\* The item lists a successful page may carry: no record, records of one shape,
\* and records of which one lacks a key another has.
PageItems ==
  {<<>>,
   <<{"a", "b"}>>,
   <<{"a", "b"}, {"a", "b"}>>,
   <<{"a", "b"}, {"a"}>>,
   <<{"a"}>>,
   <<{"b", "c"}>>}

VARIABLES
  pc,               \* position of run_ingestion_pipeline
  error,            \* the exception that reached the caller, "none" if none
  stream_open,      \* csvfile is open
  writer,           \* the csv.DictWriter: [created, fieldnames]
  artifact,         \* the lines of the csv file, in order
  total_rows,       \* total_rows
  pages_requested,  \* pages_requested
  page,             \* the (page_num, data) pair the generator yielded last
  yielded,          \* every page the generator yielded, in order
  page_num,         \* fetcher: index of the page being requested
  has_more,         \* fetcher: the last page reported hasMore
  attempt,          \* fetcher: RetryState.attempt of the current page
  auth_strike,      \* fetcher: the previous response to this page was a rejection
  cred,             \* credential provider: credentials obtained so far
  cred_valid,       \* credential provider: the cached credential is usable
  rejected_cred,    \* fetcher: the credential the last rejected request carried
  requests,         \* fetcher: page requests issued
  rejections,       \* fetcher: credential rejections received
  successful_pages, \* client.successful_pages
  failed_pages,     \* client.failed_pages
  retry_count,      \* client.retry_count
  records_ingested, \* client.records_ingested
  upload_outcome,   \* what s3.upload_file did: "none", "ok", "ClientError", "Exception"
  success,          \* success (the value upload_file returned)
  report,           \* the report file's content, NoReport if not written
  result            \* the value returned to the caller, NoResult if none

orch_vars == <<pc, error, stream_open, writer, artifact, total_rows, pages_requested>>
fetch_vars == <<page, yielded, page_num, has_more, attempt, auth_strike, cred,
                cred_valid, rejected_cred, requests, rejections, successful_pages,
                failed_pages, retry_count, records_ingested>>
end_vars == <<upload_outcome, success, report, result>>
vars == <<orch_vars, fetch_vars, end_vars>>

\* ------------------------------------------------------------ helpers
Range(s) == {s[i] : i \in DOMAIN s}

NoReport == [written |-> FALSE]
NoResult == [returned |-> FALSE]
NoWriter == [created |-> FALSE, fieldnames |-> <<>>]
NoPage == [ok |-> FALSE, items |-> <<>>]

csv_output == "data/out.csv"
s3_uri == "s3://bucket/key"

\* ------------------------------------------------ ingest.py, pure parts
\* sorted(set().union(r.keys() for r in items))
sorted_fieldnames(items) ==
  LET keys == UNION {items[i] : i \in DOMAIN items}
  IN SelectSeq(FieldOrder, LAMBDA f : f \in keys)

\* {key: row.get(key, "N/A") for key in fieldnames}
safe_row(row, fieldnames) ==
  [key \in Range(fieldnames) |-> IF key \in row THEN "val" ELSE "N/A"]

\* csv.DictWriter.writerow with extrasaction="raise": keys outside the writer's
\* fieldnames raise ValueError.
writerow_raises(wf, rowdict) == (DOMAIN rowdict) \ Range(wf) # {}

\* csv.DictWriter.writerow, restval="": the cells of the line written.
writerow_cells(wf, rowdict) ==
  [i \in 1..Len(wf) |-> IF wf[i] \in DOMAIN rowdict THEN rowdict[wf[i]] ELSE ""]

needs_header_always(w) == TRUE

\* `if writer is None`: the header is written when the writer is created.
needs_header(w) == ~w.created

\* The lines one page adds to the file: the header when the writer is created,
\* then one line per item.
page_lines(w, items, fieldnames) ==
  LET wf == IF needs_header(w) THEN fieldnames ELSE w.fieldnames
      hdr == IF needs_header(w) THEN <<[kind |-> "header", cells |-> wf]>> ELSE <<>>
      rows == [i \in 1..Len(items) |->
                 [kind |-> "row",
                  cells |-> writerow_cells(wf, safe_row(items[i], fieldnames))]]
  IN hdr \o rows

count_page_after_check(n, data) == IF data.ok THEN n + 1 ELSE n

\* `pages_requested += 1`, the first statement of the loop body.
count_page(n, data) == n + 1

\* `if not data: continue` and `if not items: continue`.
skips_page(data) == ~data.ok \/ data.items = <<>>

with_exit_leak(open) == open

\* Leaving the `with open(...)` block, normally or by an exception, closes csvfile.
with_exit(open) == FALSE

except_handler_swallow(e) == [pc |-> "upload", error |-> e]

\* `except Exception as e: logger.exception(...); raise`
except_handler(e) == [pc |-> "raised", error |-> e]

generate_report_swapped(pr, sp, fp, tr, ri, csv_path) ==
  [written |-> TRUE,
   pages_requested |-> pr,
   successful_pages |-> sp,
   failed_pages |-> fp,
   total_retries |-> tr,
   records_ingested |-> sp,
   csv_output |-> csv_path,
   format_chosen |-> "CSV"]

\* _generate_report: the fields of report_text (the timestamp and the execution
\* time, which no other part of the run reads, are left out).
generate_report(pr, sp, fp, tr, ri, csv_path) ==
  [written |-> TRUE,
   pages_requested |-> pr,
   successful_pages |-> sp,
   failed_pages |-> fp,
   total_retries |-> tr,
   records_ingested |-> ri,
   csv_output |-> csv_path,
   format_chosen |-> "CSV"]

\* S3FileClient.upload_file: True, False on ClientError; any other exception
\* of s3.upload_file is not caught.
upload_file(outcome) ==
  CASE outcome = "ok" -> [raised |-> FALSE, value |-> TRUE]
    [] outcome = "ClientError" -> [raised |-> FALSE, value |-> FALSE]
    [] OTHER -> [raised |-> TRUE, value |-> FALSE]

\* --------------------------------------------------------------- Init
Init ==
  /\ pc = "start"
  /\ error = "none"
  /\ stream_open = FALSE
  /\ writer = NoWriter
  /\ artifact = <<>>
  /\ total_rows = 0
  /\ pages_requested = 0
  /\ page = NoPage
  /\ yielded = <<>>
  /\ page_num = 1
  /\ has_more = TRUE
  /\ attempt = 0
  /\ auth_strike = FALSE
  /\ cred = 0
  /\ cred_valid = FALSE
  /\ rejected_cred = 0
  /\ requests = 0
  /\ rejections = 0
  /\ successful_pages = 0
  /\ failed_pages = 0
  /\ retry_count = 0
  /\ records_ingested = 0
  /\ upload_outcome = "none"
  /\ success = FALSE
  /\ report = NoReport
  /\ result = NoResult

\* An exception raised inside the `with` block: the block is left, the handler runs.
RaiseInWith(e) ==
  /\ stream_open' = with_exit(stream_open)
  /\ pc' = except_handler(e).pc
  /\ error' = except_handler(e).error

\* ------------------------------------------------------------ actions
\* open(csv_output, "w"): the file is opened, or open raises.
Open ==
  /\ pc = "start"
  /\ \E ok \in BOOLEAN :
       IF ok
       THEN /\ stream_open' = TRUE
            /\ pc' = "fetch"
            /\ error' = error
       ELSE /\ stream_open' = stream_open
            /\ pc' = except_handler("IOError").pc
            /\ error' = except_handler("IOError").error
  /\ UNCHANGED <<writer, artifact, total_rows, pages_requested, fetch_vars, end_vars>>

\* CredentialProvider.header when no usable credential is cached: a login or
\* refresh exchange, which succeeds or fails with AuthError.
Login ==
  /\ pc = "fetch"
  /\ has_more /\ page_num <= MaxPages
  /\ ~cred_valid
  /\ \E ok \in BOOLEAN :
       IF ok
       THEN /\ cred' = cred + 1
            /\ cred_valid' = TRUE
            /\ UNCHANGED <<pc, error, stream_open>>
       ELSE /\ UNCHANGED <<cred, cred_valid>>
            /\ RaiseInWith("AuthError")
  /\ UNCHANGED <<writer, artifact, total_rows, pages_requested, page, yielded,
                 page_num, has_more, attempt, auth_strike, rejected_cred, requests,
                 rejections, successful_pages, failed_pages, retry_count,
                 records_ingested, end_vars>>

\* A page request answered 2xx: the page is yielded.
RequestSuccess ==
  /\ pc = "fetch"
  /\ has_more /\ page_num <= MaxPages
  /\ cred_valid
  /\ \E items \in PageItems, hm \in BOOLEAN :
       /\ page' = [ok |-> TRUE, items |-> items]
       /\ yielded' = Append(yielded, [ok |-> TRUE, items |-> items])
       /\ has_more' = hm
       /\ records_ingested' = records_ingested + Len(items)
  /\ requests' = requests + 1
  /\ successful_pages' = successful_pages + 1
  /\ page_num' = page_num + 1
  /\ attempt' = 0
  /\ auth_strike' = FALSE
  /\ pc' = "body"
  /\ UNCHANGED <<error, stream_open, writer, artifact, total_rows, pages_requested,
                 cred, cred_valid, rejected_cred, rejections, failed_pages,
                 retry_count, end_vars>>

on_rejection_as_transient(strike, n, att, rc) ==
  [fatal |-> FALSE, cred_valid |-> FALSE, page_num |-> n, attempt |-> att + 1,
   retry_count |-> rc + 1]

\* The effect of a 401/403 on the fetcher: the cached credential is invalidated;
\* the first rejection keeps the page and its retry budget, the second in a row
\* is fatal.
on_rejection(strike, n, att, rc) ==
  [fatal |-> strike, cred_valid |-> FALSE, page_num |-> n, attempt |-> att,
   retry_count |-> rc]

\* A page request answered 401/403.
RequestRejected ==
  /\ pc = "fetch"
  /\ has_more /\ page_num <= MaxPages
  /\ cred_valid
  /\ rejections < MaxRejections
  /\ requests' = requests + 1
  /\ rejections' = rejections + 1
  /\ rejected_cred' = cred
  /\ LET r == on_rejection(auth_strike, page_num, attempt, retry_count)
     IN /\ cred_valid' = r.cred_valid
        /\ page_num' = r.page_num
        /\ attempt' = r.attempt
        /\ retry_count' = r.retry_count
        /\ IF r.fatal
           THEN /\ RaiseInWith("AuthError")
                /\ auth_strike' = auth_strike
           ELSE /\ auth_strike' = TRUE
                /\ UNCHANGED <<pc, error, stream_open>>
  /\ UNCHANGED <<writer, artifact, total_rows, pages_requested, page, yielded,
                 has_more, cred, successful_pages, failed_pages, records_ingested,
                 end_vars>>

\* A page request that fails transiently (timeout, connection error, 5xx,
\* malformed body): retried while attempt <= max_retries, else the page is
\* marked failed and yielded empty with hasMore = true.
RequestTransient ==
  /\ pc = "fetch"
  /\ has_more /\ page_num <= MaxPages
  /\ cred_valid
  /\ retry_count < MaxRetryCount \/ attempt = max_retries
  /\ requests' = requests + 1
  /\ auth_strike' = FALSE
  /\ IF attempt + 1 <= max_retries
     THEN /\ attempt' = attempt + 1
          /\ retry_count' = retry_count + 1
          /\ UNCHANGED <<pc, page, yielded, page_num, failed_pages>>
     ELSE /\ attempt' = 0
          /\ failed_pages' = failed_pages + 1
          /\ page' = NoPage
          /\ yielded' = Append(yielded, NoPage)
          /\ page_num' = page_num + 1
          /\ pc' = "body"
          /\ UNCHANGED retry_count
  /\ UNCHANGED <<error, stream_open, writer, artifact, total_rows, pages_requested,
                 has_more, cred, cred_valid, rejected_cred, rejections,
                 successful_pages, records_ingested, end_vars>>

\* The generator is exhausted (hasMore = false, or the page ceiling): the for
\* loop ends and the `with` block is left; closing flushes, which may fail.
CloseStream ==
  /\ pc = "fetch"
  /\ ~has_more \/ page_num > MaxPages
  /\ stream_open' = with_exit(stream_open)
  /\ \E ok \in BOOLEAN :
       IF ok
       THEN pc' = "upload" /\ error' = error
       ELSE /\ pc' = except_handler("IOError").pc
            /\ error' = except_handler("IOError").error
  /\ UNCHANGED <<writer, artifact, total_rows, pages_requested, fetch_vars, end_vars>>

\* One iteration of the body of `for page_num, data in client.iterate_all_pages`.
Body ==
  /\ pc = "body"
  /\ pages_requested' = count_page(pages_requested, page)
  /\ IF skips_page(page)
     THEN /\ pc' = "fetch"
          /\ UNCHANGED <<error, stream_open, writer, artifact, total_rows>>
     ELSE LET items == page.items
              fieldnames == sorted_fieldnames(items)
              w == IF needs_header(writer)
                   THEN [created |-> TRUE, fieldnames |-> fieldnames]
                   ELSE writer
              lines == page_lines(writer, items, fieldnames)
          IN /\ writer' = w
             /\ IF writerow_raises(w.fieldnames, safe_row(items[1], fieldnames))
                THEN \* the first writerow of the page raises ValueError
                     /\ UNCHANGED <<artifact, total_rows>>
                     /\ RaiseInWith("ValueError")
                ELSE \E wrote \in 0..Len(lines) :
                       \* `wrote` lines reach the file; a write after them fails
                       \* unless all of the page's lines were written
                       LET done == SubSeq(lines, 1, wrote)
                       IN /\ artifact' = artifact \o done
                          /\ total_rows' = total_rows
                               + Len(SelectSeq(done, LAMBDA l : l.kind = "row"))
                          /\ IF wrote = Len(lines)
                             THEN /\ pc' = "fetch"
                                  /\ UNCHANGED <<error, stream_open>>
                             ELSE RaiseInWith("IOError")
  /\ UNCHANGED <<fetch_vars, end_vars>>

\* uploader.upload_file(...) and the logging of its result.
Upload ==
  /\ pc = "upload"
  /\ \E outcome \in {"ok", "ClientError", "Exception"} :
       /\ upload_outcome' = outcome
       /\ IF upload_file(outcome).raised
          THEN /\ pc' = except_handler("UploadError").pc
               /\ error' = except_handler("UploadError").error
               /\ success' = success
          ELSE /\ pc' = "report"
               /\ error' = error
               /\ success' = upload_file(outcome).value
  /\ UNCHANGED <<stream_open, writer, artifact, total_rows, pages_requested,
                 fetch_vars, report, result>>

\* _generate_report(...) and `return csv_output, s3 uri`.
Report ==
  /\ pc = "report"
  /\ report' = generate_report(pages_requested, successful_pages, failed_pages,
                               retry_count, records_ingested, csv_output)
  /\ result' = [returned |-> TRUE, csv_output |-> csv_output, s3_uri |-> s3_uri]
  /\ pc' = "returned"
  /\ UNCHANGED <<error, stream_open, writer, artifact, total_rows, pages_requested,
                 fetch_vars, upload_outcome, success>>

Next ==
  \/ Open
  \/ Login
  \/ RequestSuccess
  \/ RequestRejected
  \/ RequestTransient
  \/ CloseStream
  \/ Body
  \/ Upload
  \/ Report

Spec == Init /\ [][Next]_vars

\* ------------------------------------------------------------- claims
RECURSIVE SumLen(_)
\* The sum of the item counts of the successful pages of ps.
SumLen(ps) ==
  IF ps = <<>> THEN 0
  ELSE (IF ps[1].ok THEN Len(ps[1].items) ELSE 0) + SumLen(Tail(ps))

\* The lines of the csv file of one kind, "header" or "row".
Lines(kind) == SelectSeq(artifact, LAMBDA l : l.kind = kind)

\* The pages the loop body has consumed.
Consumed == SubSeq(yielded, 1, pages_requested)

Ended == pc \in {"upload", "report", "returned"}

PageAB == [ok |-> TRUE, items |-> <<{"a", "b"}>>]
PageBC == [ok |-> TRUE, items |-> <<{"b", "c"}>>]
PageA == [ok |-> TRUE, items |-> <<{"a"}>>]
Page2 == [ok |-> TRUE, items |-> <<{"a", "b"}, {"a", "b"}>>]
Page0 == [ok |-> TRUE, items |-> <<>>]

\* C1: the Schema (the header's field names) holds every field name of every
\* page the sink has consumed, and after page 1 with fields {a,b} and page 2
\* with fields {b,c} the run goes on with the header [a,b,c].
C1_SchemaGrows ==
  /\ \A i \in 1..pages_requested :
       Range(sorted_fieldnames(Consumed[i].items)) \subseteq Range(writer.fieldnames)
  /\ (Consumed = <<PageAB, PageBC>>) =>
       (pc # "raised" /\ writer.fieldnames = <<"a", "b", "c">>)

\* C2: every data row has as many columns as the Schema has fields, and each
\* column the record has no value for holds the sentinel "N/A", never an empty
\* value.
C2_RowsPadded ==
  \A i \in DOMAIN artifact :
    artifact[i].kind = "row" =>
      /\ Len(artifact[i].cells) = Len(writer.fieldnames)
      /\ \A j \in DOMAIN artifact[i].cells : artifact[i].cells[j] \in {"val", "N/A"}

C4_UploadFailureTolerated ==
  upload_outcome \notin {"none", "ok"} =>
    /\ pc # "raised"
    /\ pc = "returned" => (report.written /\ result.csv_output = csv_output)

\* C5: the summary report of a completed run has an upload-outcome field, which
\* tells whether the upload succeeded.
C5_UploadOutcomeSurfaced ==
  pc = "returned" =>
    /\ "upload_outcome" \in DOMAIN report
    /\ report.upload_outcome = success

\* C6: an error raised by the fetcher or the credential provider while pages
\* are consumed, or a failed write to the csv file, reaches the caller, and
\* neither the upload nor the summary report happens afterwards.
C6_FatalErrorsAbort ==
  error \in {"AuthError", "IOError", "ValueError"} =>
    /\ pc = "raised"
    /\ upload_outcome = "none"
    /\ ~report.written
    /\ ~result.returned

C6_Witness ==
  /\ pc = "raised"
  /\ error = "AuthError"
  /\ Len(Lines("row")) >= 2
  /\ upload_outcome = "none"

\* C7: a page whose retries are exhausted writes nothing and the loop goes on to
\* the next page; at the end of the run pages_requested is the number of pages
\* the fetcher yielded, failed and empty ones included.
C7_FailedPageCounted ==
  /\ [](Ended => pages_requested = Len(yielded))
  /\ [][(pc = "body" /\ ~page.ok) =>
          /\ artifact' = artifact
          /\ pc' = "fetch"
          /\ has_more'
          /\ pages_requested' = pages_requested + 1]_vars

C7_Witness ==
  /\ pc = "returned"
  /\ Len(yielded) = 3
  /\ ~yielded[1].ok
  /\ yielded[2] = Page0
  /\ yielded[3] = PageAB
  /\ pages_requested = 3
  /\ Len(Lines("row")) = 1

\* C8: a page request answered by a credential rejection is retried once, for
\* the same page, with a credential obtained after the rejection, and uses none
\* of the retry budget; a rejection of that retry ends the run with AuthError,
\* after which no page request is issued.
C8_RejectionRetriedOnce ==
  /\ [][(rejections' = rejections + 1 /\ ~auth_strike) =>
          /\ pc' = "fetch"
          /\ page_num' = page_num
          /\ attempt' = attempt
          /\ retry_count' = retry_count
          /\ failed_pages' = failed_pages
          /\ ~cred_valid']_vars
  /\ [][(requests' = requests + 1) => (cred_valid /\ cred # rejected_cred)]_vars
  /\ [][(rejections' = rejections + 1 /\ auth_strike) =>
          (pc' = "raised" /\ error' = "AuthError")]_vars
  /\ [][error = "AuthError" => requests' = requests]_vars

C8_Witness ==
  /\ pc = "raised"
  /\ error = "AuthError"
  /\ rejections = 2
  /\ requests = 3
  /\ cred = 2
  /\ Len(yielded) = 1

\* C9: the header line is written once if a consumed page holds a record and
\* never otherwise; it is the first line of the file; a page with no data or no
\* record writes nothing.  Three pages of 2 records and an empty last page give
\* 1 header and 6 rows.
C9_HeaderOnce ==
  /\ [](/\ Len(Lines("header")) <= 1
        /\ artifact # <<>> => artifact[1].kind = "header"
        /\ error # "IOError" =>
             (Len(Lines("header")) = 1 <=>
                \E i \in 1..pages_requested : Consumed[i].items # <<>>)
        /\ (pc = "returned" /\ yielded = <<Page2, Page2, Page2, Page0>>) =>
             (Len(Lines("header")) = 1 /\ Len(Lines("row")) = 6))
  /\ [][(pc = "body" /\ (~page.ok \/ page.items = <<>>)) => artifact' = artifact]_vars

C9_Witness ==
  /\ pc = "returned"
  /\ yielded = <<Page2, Page2, Page2, Page0>>
  /\ Len(artifact) = 7

\* C10: when the run has returned or raised, the csv file is closed, and the
\* upload is never started while it is open.
C10_StreamClosed ==
  /\ pc \in {"returned", "raised"} => ~stream_open
  /\ (pc \in {"upload", "report"} \/ upload_outcome # "none") => ~stream_open

C10_Witness ==
  /\ pc = "raised"
  /\ error = "ValueError"
  /\ Len(artifact) >= 2
  /\ ~stream_open

====
